---- MODULE Spec2Model ----
(***************************************************************************)
(* Submission processing pipeline of scholarship_master: the orchestrator  *)
(* (SubmissionWorkflow), the JSON-backed DatabaseService, the rule-based   *)
(* DocumentClassifier and the GradingAgent with its response parser.       *)
(*                                                                         *)
(* Text is modelled as a sequence of tokens (a token is a word, a          *)
(* punctuation mark, a blank or a number literal); the concatenation of    *)
(* the tokens is the Python string.  Scores are kept in hundredths of a    *)
(* point so that 25 * 0.15 = 3.75 is the integer 375.                      *)
(***************************************************************************)
EXTENDS Integers, Sequences, FiniteSets, TLC

\* ------------------------------------------------------------------ bounds
\* longest listing list_submissions returns in one run
MaxList == 2
\* number of failures (exceptions raised by a collaborator, interruptions) in a
\* whole behaviour
MaxFaults == 1
\* number of create calls a concurrent user of the store makes
MaxCreates == 2

\* ----------------------------------------------------------- configuration
\* a category table that lost its "other" entry
categories_without_other ==
    << [name |-> "essay", extensions |-> <<".pdf">>, keywords |-> <<"essay">>] >>

\* a category table with transcript configured before essay
categories_transcript_first ==
    << [name |-> "transcript",
        extensions |-> <<".pdf", ".xlsx">>,
        keywords |-> <<"transcript", "academic record", "gpa">>],
       [name |-> "essay",
        extensions |-> <<".pdf", ".docx", ".txt">>,
        keywords |-> <<"essay", "personal statement">>],
       [name |-> "letter_of_recommendation",
        extensions |-> <<".pdf", ".docx">>,
        keywords |-> <<"letter", "recommendation", "reference">>],
       [name |-> "other", extensions |-> <<>>, keywords |-> <<>>] >>

\* settings.DOCUMENT_CATEGORIES, in dict (insertion) order
DOCUMENT_CATEGORIES ==
    << [name |-> "essay",
        extensions |-> <<".pdf", ".docx", ".txt">>,
        keywords |-> <<"essay", "personal statement">>],
       [name |-> "transcript",
        extensions |-> <<".pdf", ".xlsx">>,
        keywords |-> <<"transcript", "academic record", "gpa">>],
       [name |-> "letter_of_recommendation",
        extensions |-> <<".pdf", ".docx">>,
        keywords |-> <<"letter", "recommendation", "reference">>],
       [name |-> "other", extensions |-> <<>>, keywords |-> <<>>] >>

\* a rubric table whose essay criteria add up to more than max_score
rubric_maxes_exceed ==
    [essay |->
        [max_score |-> 100,
         criteria |-> << [name |-> "clarity", weight |-> 25, max |-> 30],
                         [name |-> "relevance", weight |-> 25, max |-> 30],
                         [name |-> "depth", weight |-> 25, max |-> 30],
                         [name |-> "grammar", weight |-> 25, max |-> 30] >>],
     transcript |->
        [max_score |-> 100,
         criteria |-> << [name |-> "gpa", weight |-> 60, max |-> 60],
                         [name |-> "course_rigor", weight |-> 40, max |-> 40] >>],
     letter_of_recommendation |->
        [max_score |-> 100,
         criteria |-> << [name |-> "strength", weight |-> 50, max |-> 50],
                         [name |-> "specificity", weight |-> 50, max |-> 50] >>]]

\* settings.SCORING_RUBRIC; weight is in percent, max in points
SCORING_RUBRIC ==
    [essay |->
        [max_score |-> 100,
         criteria |-> << [name |-> "clarity", weight |-> 25, max |-> 25],
                         [name |-> "relevance", weight |-> 25, max |-> 25],
                         [name |-> "depth", weight |-> 25, max |-> 25],
                         [name |-> "grammar", weight |-> 25, max |-> 25] >>],
     transcript |->
        [max_score |-> 100,
         criteria |-> << [name |-> "gpa", weight |-> 60, max |-> 60],
                         [name |-> "course_rigor", weight |-> 40, max |-> 40] >>],
     letter_of_recommendation |->
        [max_score |-> 100,
         criteria |-> << [name |-> "strength", weight |-> 50, max |-> 50],
                         [name |-> "specificity", weight |-> 50, max |-> 50] >>]]

\* ------------------------------------------------------------------- text
\* str.lower() on one token: the upper-case spellings the model uses
lower_token(t) ==
    CASE t = "Essay" -> "essay"
      [] t = "GPA" -> "gpa"
      [] t = "Transcript" -> "transcript"
      [] t = "Clarity" -> "clarity"
      [] t = "Excellent" -> "excellent"
      [] OTHER -> t

\* str.lower()
lower(s) == [i \in 1..Len(s) |-> lower_token(s[i])]

\* keyword in s
contains(s, keyword) == \E i \in 1..Len(s) : s[i] = keyword

\* s.endswith(suffix)
endswith(s, suffix) == Len(s) > 0 /\ s[Len(s)] = suffix

\* s.startswith(prefix), prefix a sequence of tokens
startswith(s, prefix) ==
    /\ Len(s) >= Len(prefix)
    /\ \A i \in 1..Len(prefix) : s[i] = prefix[i]

\* s.strip(): blanks removed at both ends
strip(s) ==
    LET keep == {i \in 1..Len(s) : s[i] # " "}
        Lo == CHOOSE i \in keep : \A k \in keep : i <= k
        Hi == CHOOSE i \in keep : \A k \in keep : i >= k
    IN  IF keep = {} THEN <<>> ELSE SubSeq(s, Lo, Hi)

\* s.split(":", 1): <<s>> without a colon, else <<before, after>> the first one
split_colon(s) ==
    LET at == {i \in 1..Len(s) : s[i] = ":"}
        First == CHOOSE i \in at : \A k \in at : i <= k
    IN  IF at = {} THEN <<s>>
        ELSE <<SubSeq(s, 1, First - 1), SubSeq(s, First + 1, Len(s))>>

\* the number literals of the model, with their value in hundredths
number_value(t) ==
    CASE t = "85" -> 8500
      [] t = "20" -> 2000
      [] t = "0" -> 0
      [] t = "150" -> 15000
      [] t = "-5" -> 0 - 500
      [] OTHER -> 0

is_number(t) == t \in {"85", "20", "0", "150", "-5"}

\* a float() that takes any text, as 0 when it is no number literal
float_any(s) == TRUE

\* float(s) succeeds: s, stripped, is one number literal
float_ok(s) == Len(strip(s)) = 1 /\ is_number(strip(s)[1])

\* float(s)
float(s) == number_value(strip(s)[1])

min(a, b) == IF a <= b THEN a ELSE b

\* a content kept from an earlier extraction
stale_content == [chars |-> 600, toks |-> <<"Excellent", " ", "Essay">>]

\* a content string: its length in characters and its tokens
EmptyContent == [chars |-> 0, toks |-> <<>>]

\* ------------------------------------------------------------- classifier
\* a classifier for which a matching extension is enough
classify_by_extension(file_name, mime_type, content) ==
    LET file_name_lower == lower(file_name)
        content_lower == IF content.chars > 0 THEN lower(content.toks) ELSE <<>>
        hits == {c \in 1..Len(DOCUMENT_CATEGORIES) :
                    /\ DOCUMENT_CATEGORIES[c].name # "other"
                    /\ \/ \E e \in 1..Len(DOCUMENT_CATEGORIES[c].extensions) :
                              endswith(file_name_lower,
                                       DOCUMENT_CATEGORIES[c].extensions[e])
                       \/ \E k \in 1..Len(DOCUMENT_CATEGORIES[c].keywords) :
                              \/ contains(file_name_lower,
                                          DOCUMENT_CATEGORIES[c].keywords[k])
                              \/ contains(content_lower,
                                          DOCUMENT_CATEGORIES[c].keywords[k])}
        first == CHOOSE c \in hits : \A d \in hits : c <= d
    IN  IF hits = {} THEN "other" ELSE DOCUMENT_CATEGORIES[first].name

\* DocumentClassifier.classify
classify(file_name, mime_type, content) ==
    LET file_name_lower == lower(file_name)
        content_lower == IF content.chars > 0 THEN lower(content.toks) ELSE <<>>
        keyword_hit(rules) ==
            \E k \in 1..Len(rules.keywords) :
                \/ contains(file_name_lower, rules.keywords[k])
                \/ contains(content_lower, rules.keywords[k])
        extension_hit(rules) ==
            \E e \in 1..Len(rules.extensions) :
                /\ endswith(file_name_lower, rules.extensions[e])
                /\ keyword_hit(rules)
        hits == {c \in 1..Len(DOCUMENT_CATEGORIES) :
                    /\ DOCUMENT_CATEGORIES[c].name # "other"
                    /\ \/ extension_hit(DOCUMENT_CATEGORIES[c])
                       \/ keyword_hit(DOCUMENT_CATEGORIES[c])}
        first == CHOOSE c \in hits : \A d \in hits : c <= d
    IN  IF hits = {} THEN "other" ELSE DOCUMENT_CATEGORIES[first].name

\* the result of the rule-based classify as classify_by_ai returns it; the
\* confidence is in hundredths, the category a text
rule_based_result(file_name, content) ==
    [category |-> <<classify(file_name, "", content)>>, confidence |-> 50]

RECURSIVE classify_lines(_, _, _)
\* the for loop of classify_by_ai over the lines of the response, from line i
\* on; the lines are not stripped
classify_lines(lines, i, st) ==
    IF i > Len(lines) THEN st
    ELSE classify_lines(lines, i + 1,
            IF startswith(lines[i], <<"category", ":">>)
            THEN [st EXCEPT !.category = strip(split_colon(lines[i])[2])]
            ELSE IF startswith(lines[i], <<"confidence", ":">>)
                    /\ float_ok(split_colon(lines[i])[2])
            THEN [st EXCEPT !.confidence = float(split_colon(lines[i])[2])]
            ELSE st)

\* DocumentClassifier.classify_by_ai.  api_key: settings.OPENAI_API_KEY is set;
\* service: what `import openai` and openai.ChatCompletion.create do, [raises,
\* text], text being the stripped answer split in lines
classify_by_ai(file_name, content, api_key, service) ==
    IF ~api_key THEN rule_based_result(file_name, content)
    ELSE IF service.raises THEN rule_based_result(file_name, content)
    ELSE classify_lines(service.text, 1, [category |-> <<"other">>, confidence |-> 50])

\* ----------------------------------------------------------------- grader
\* the keys of a rubric's "criteria" dict
criteria_names(rubric) == {rubric.criteria[i].name : i \in 1..Len(rubric.criteria)}

\* rubric["criteria"][name]
criterion_config(rubric, name) ==
    rubric.criteria[CHOOSE i \in 1..Len(rubric.criteria) : rubric.criteria[i].name = name]

RECURSIVE sum_values(_, _)
\* sum(d.values()) over the keys in `keys`
sum_values(d, keys) ==
    IF keys = {} THEN 0
    ELSE LET k == CHOOSE x \in keys : TRUE
         IN  d[k] + sum_values(d, keys \ {k})

\* GradingAgent._grade_with_rules
grade_with_rules(category, content, rubric) ==
    LET quality ==
            \E word \in {"quality", "excellent", "professional", "demonstrated"} :
                contains(lower(content.toks), word)
        score(config) ==
            config.max * 50
            + (IF content.chars > 500 THEN config.max * 25 ELSE 0)
            + (IF quality THEN config.max * 15 ELSE 0)
        criteria_scores ==
            [n \in criteria_names(rubric) |->
                min(score(criterion_config(rubric, n)),
                    criterion_config(rubric, n).max * 100)]
    IN  [category |-> category,
         total_score |-> sum_values(criteria_scores, criteria_names(rubric)),
         max_score |-> rubric.max_score * 100,
         criteria_scores |-> criteria_scores,
         feedback |-> <<"Rule-based grading">>]

\* a loop body that takes every "name: number" line as a criterion score
parse_line_any_name(line, st, rubric) ==
    IF contains(line, ":") /\ float_ok(split_colon(line)[2])
          /\ Len(strip(split_colon(line)[1])) = 1
    THEN [st EXCEPT !.criteria_scores =
                       (lower(strip(split_colon(line)[1]))[1]
                            :> float(split_colon(line)[2])) @@ st.criteria_scores]
    ELSE st

\* one iteration of the loop of _parse_grading_response over a stripped line;
\* st holds total_score, criteria_scores, feedback, parsing_feedback
parse_line(line, st, rubric) ==
    IF startswith(line, <<"SCORE", ":">>)
    THEN IF float_ok(split_colon(line)[2])
         THEN [st EXCEPT !.total_score = float(split_colon(line)[2])]
         ELSE st
    ELSE IF startswith(line, <<"CRITERIA", "_SCORES", ":">>)
    THEN [st EXCEPT !.parsing_feedback = FALSE]
    ELSE IF startswith(line, <<"FEEDBACK", ":">>)
    THEN [st EXCEPT !.feedback = strip(split_colon(line)[2]),
                    !.parsing_feedback = TRUE]
    ELSE IF /\ contains(line, ":")
            /\ ~startswith(line, <<"SCORE">>)
            /\ ~startswith(line, <<"CRITERIA">>)
    THEN LET parts == split_colon(line)
             criterion == lower(strip(parts[1]))
         IN  IF /\ float_ok(parts[2])
                /\ Len(criterion) = 1
                /\ criterion[1] \in criteria_names(rubric)
             THEN [st EXCEPT !.criteria_scores =
                                (criterion[1] :> float(parts[2])) @@ st.criteria_scores]
             ELSE st
    ELSE IF st.parsing_feedback /\ line # <<>>
    THEN [st EXCEPT !.feedback = st.feedback \o <<" ">> \o line]
    ELSE st

RECURSIVE parse_lines(_, _, _, _)
\* the for loop of _parse_grading_response from line i on
parse_lines(lines, i, st, rubric) ==
    IF i > Len(lines) THEN st
    ELSE parse_lines(lines, i + 1, parse_line(strip(lines[i]), st, rubric), rubric)

\* a total that is returned as parsed
unclamped_total(total_score, max_score) == total_score

\* min(total_score, rubric["max_score"])
clamp_total(total_score, max_score) == min(total_score, max_score)

\* GradingAgent._parse_grading_response; response is response.split("\n")
parse_grading_response(category, response, rubric) ==
    LET st == parse_lines(response, 1,
                          [total_score |-> 0,
                           criteria_scores |-> [n \in {} |-> 0],
                           feedback |-> <<>>,
                           parsing_feedback |-> FALSE],
                          rubric)
    IN  [category |-> category,
         total_score |-> clamp_total(st.total_score, rubric.max_score * 100),
         max_score |-> rubric.max_score * 100,
         criteria_scores |-> st.criteria_scores,
         feedback |-> strip(st.feedback)]

\* a grade_document without its try block: the exception of the service leaves it
grade_document_unguarded(category, content, file_name, api_key, service) ==
    IF category \notin DOMAIN SCORING_RUBRIC
    THEN [category |-> category,
          total_score |-> 0,
          max_score |-> 100 * 100,
          criteria_scores |-> [n \in {} |-> 0],
          feedback |-> <<"No scoring rubric available for this document type.">>]
    ELSE IF api_key
    THEN IF service.raises
         THEN [exception |-> "raised by the service"]
         ELSE parse_grading_response(category, service.text, SCORING_RUBRIC[category])
    ELSE grade_with_rules(category, content, SCORING_RUBRIC[category])

\* a grade_document that calls the service before it looks for the rubric
grade_document_service_first(category, content, file_name, api_key, service) ==
    IF api_key /\ service.raises
    THEN [category |-> category,
          total_score |-> 0,
          max_score |-> 100 * 100,
          criteria_scores |-> [n \in {} |-> 0],
          feedback |-> <<"Error during grading">>]
    ELSE IF category \notin DOMAIN SCORING_RUBRIC
    THEN [category |-> category,
          total_score |-> 0,
          max_score |-> 100 * 100,
          criteria_scores |-> [n \in {} |-> 0],
          feedback |-> <<"No scoring rubric available for this document type.">>]
    ELSE IF api_key
    THEN parse_grading_response(category, service.text, SCORING_RUBRIC[category])
    ELSE grade_with_rules(category, content, SCORING_RUBRIC[category])

\* GradingAgent.grade_document.  api_key: settings.OPENAI_API_KEY is set;
\* service: what openai.ChatCompletion.create does, [raises, text]
grade_document(category, content, file_name, api_key, service) ==
    IF category \notin DOMAIN SCORING_RUBRIC
    THEN [category |-> category,
          total_score |-> 0,
          max_score |-> 100 * 100,
          criteria_scores |-> [n \in {} |-> 0],
          feedback |-> <<"No scoring rubric available for this document type.">>]
    ELSE LET rubric == SCORING_RUBRIC[category]
         IN  IF api_key
             THEN IF service.raises
                  THEN [category |-> category,
                        total_score |-> 0,
                        max_score |-> rubric.max_score * 100,
                        criteria_scores |-> [n \in {} |-> 0],
                        feedback |-> <<"Error during grading">>]
                  ELSE parse_grading_response(category, service.text, rubric)
             ELSE grade_with_rules(category, content, rubric)

\* ------------------------------------------------------------ the source
\* the containers GoogleDriveService.list_submissions can list
Folders == {"f1", "f2"}

\* folder["name"] of each container
folder_name(folder_id) ==
    IF folder_id = "f1" THEN <<"John Doe", " - ", "john@example.com">>
    ELSE <<"Jane Roe">>

\* the file metadata GoogleDriveService.list_documents returns for a container
list_documents(folder_id) ==
    IF folder_id = "f1"
    THEN << [id |-> "d1", name |-> <<"scan", ".pdf">>,
             mimeType |-> "application/pdf", size |-> 2048],
            [id |-> "d2", name |-> <<"random_file", ".txt">>,
             mimeType |-> "text/plain", size |-> 19] >>
    ELSE << [id |-> "d3", name |-> <<"Transcript", ".pdf">>,
             mimeType |-> "application/pdf", size |-> 0] >>

\* what TextExtractor.extract_text reads from a file when extraction works
file_text(doc_id) ==
    CASE doc_id = "d1" -> [chars |-> 600, toks |-> <<"Excellent", " ", "Essay">>]
      [] doc_id = "d2" -> [chars |-> 19, toks |-> <<"Some", " ", "random", " ", "content">>]
      [] OTHER -> EmptyContent

\* the sequences over Folders of length n
listings_of(n) == [1..n -> Folders]

\* every listing list_submissions may return
Listings == UNION {listings_of(n) : n \in 0..MaxList}

\* str(e) of the exceptions that reach the submission handler
ExceptionTexts == {"", "boom"}

\* the texts the delegated scoring service may answer with, split in lines
ServiceResponses ==
    { << <<"SCORE", ":", " ", "85">>,
         <<"CRITERIA", "_SCORES", ":">>,
         <<"Clarity", ":", " ", "20">>,
         <<"FEEDBACK", ":", " ", "good">> >>,
      << <<"SCORE", ":", " ", "150">> >>,
      << <<"SCORE", ":", " ", "-5">> >> }

\* ------------------------------------------------------------- the store
\* DatabaseService._load with no store file
empty_store ==
    [submissions |-> <<>>, documents |-> <<>>, scores |-> <<>>,
     next_submission_id |-> 1, next_document_id |-> 1, next_score_id |-> 1]

\* next((x for x in rows if x["id"] == id), None), as <<>> or <<row>>
find_by_id(rows, id) ==
    LET at == {i \in 1..Len(rows) : rows[i].id = id}
    IN  IF at = {} THEN <<>> ELSE <<rows[CHOOSE i \in at : \A k \in at : i <= k]>>

\* DatabaseService.create_submission: the store after the call (the row is
\* appended before _save, so it is there also when _save raises)
create_submission(d, submission) ==
    [d EXCEPT !.next_submission_id = @ + 1,
              !.submissions = Append(@, [id |-> d.next_submission_id,
                                         applicant_name |-> submission.applicant_name,
                                         applicant_email |-> submission.applicant_email,
                                         submission_folder_id |-> submission.submission_folder_id,
                                         status |-> submission.status,
                                         error_message |-> submission.error_message])]

\* DatabaseService.get_submission, as <<>> (None) or <<submission>>
get_submission(d, submission_id) == find_by_id(d.submissions, submission_id)

\* DatabaseService.get_submission_by_folder_id, as <<>> (None) or <<submission>>
get_submission_by_folder_id(d, folder_id) ==
    LET at == {i \in 1..Len(d.submissions) :
                  d.submissions[i].submission_folder_id = folder_id}
        first == CHOOSE i \in at : \A k \in at : i <= k
    IN  IF at = {} THEN <<>> ELSE get_submission(d, d.submissions[first].id)

\* a status write that is lost
status_write_lost(d, submission_id, status, error_message) == d

\* a status write that stores the message it is given, None included
status_write_overwrites(d, submission_id, status, error_message) ==
    LET at == {i \in 1..Len(d.submissions) : d.submissions[i].id = submission_id}
        first == CHOOSE i \in at : \A k \in at : i <= k
    IN  IF at = {} THEN d
        ELSE [d EXCEPT !.submissions[first].status = status,
                       !.submissions[first].error_message = error_message]

\* DatabaseService.update_submission_status; error_message is <<>> (None) or
\* <<text>>, and is stored only when the text is non-empty
update_submission_status(d, submission_id, status, error_message) ==
    LET at == {i \in 1..Len(d.submissions) : d.submissions[i].id = submission_id}
        first == CHOOSE i \in at : \A k \in at : i <= k
    IN  IF at = {} THEN d
        ELSE [d EXCEPT !.submissions[first].status = status,
                       !.submissions[first].error_message =
                           IF error_message # <<>> /\ error_message[1] # ""
                           THEN error_message ELSE @]

\* a create_document that does not advance its counter
create_document_same_id(d, submission_id, document) ==
    [d EXCEPT !.documents = Append(@, [id |-> d.next_document_id,
                                       submission_id |-> submission_id,
                                       name |-> document.name,
                                       google_drive_id |-> document.google_drive_id,
                                       mime_type |-> document.mime_type,
                                       category |-> document.category,
                                       file_size |-> document.file_size,
                                       processed |-> document.processed])]

\* DatabaseService.create_document
create_document(d, submission_id, document) ==
    [d EXCEPT !.next_document_id = @ + 1,
              !.documents = Append(@, [id |-> d.next_document_id,
                                       submission_id |-> submission_id,
                                       name |-> document.name,
                                       google_drive_id |-> document.google_drive_id,
                                       mime_type |-> document.mime_type,
                                       category |-> document.category,
                                       file_size |-> document.file_size,
                                       processed |-> document.processed])]

\* an update_document that writes nothing
update_document_lost(d, document_id, value) == d

\* an update_document that also resets the category of the row
update_document_recategorises(d, document_id, value) ==
    LET at == {i \in 1..Len(d.documents) : d.documents[i].id = document_id}
        first == CHOOSE i \in at : \A k \in at : i <= k
    IN  IF at = {} THEN d
        ELSE [d EXCEPT !.documents[first].processed = value,
                       !.documents[first].category = "other"]

\* DatabaseService.update_document(document_id, processed=value)
update_document(d, document_id, value) ==
    LET at == {i \in 1..Len(d.documents) : d.documents[i].id = document_id}
        first == CHOOSE i \in at : \A k \in at : i <= k
    IN  IF at = {} THEN d ELSE [d EXCEPT !.documents[first].processed = value]

\* a create_score that writes nothing
create_score_lost(d, submission_id, score) == d

\* DatabaseService.create_score
create_score(d, submission_id, score) ==
    [d EXCEPT !.next_score_id = @ + 1,
              !.scores = Append(@, [id |-> d.next_score_id,
                                    document_id |-> score.document_id,
                                    submission_id |-> submission_id,
                                    category |-> score.category,
                                    total_score |-> score.total_score,
                                    max_score |-> score.max_score,
                                    criteria_scores |-> score.criteria_scores,
                                    feedback |-> score.feedback])]

\* ----------------------------------------------------------- orchestrator
RECURSIVE split(_, _)
\* s.split(sep): the pieces of s between the occurrences of the token sep
split(s, sep) ==
    LET at == {i \in 1..Len(s) : s[i] = sep}
        first == CHOOSE i \in at : \A k \in at : i <= k
    IN  IF at = {} THEN <<s>>
        ELSE <<SubSeq(s, 1, first - 1)>> \o split(SubSeq(s, first + 1, Len(s)), sep)

\* the Submission built for a new container (_process_single_submission)
new_submission(folder_id, name) ==
    [applicant_name |-> IF contains(name, " - ") THEN split(name, " - ")[1] ELSE name,
     applicant_email |-> IF contains(name, " - ") THEN split(name, " - ")[2] ELSE <<>>,
     submission_folder_id |-> folder_id,
     status |-> "processing",
     error_message |-> <<>>]

\* a Submission as a caller of the store builds it: status defaults to pending
pending_submission(folder_id, name) ==
    [new_submission(folder_id, name) EXCEPT !.status = "pending"]

\* a skip test that skips every container that has a row
skips_every_row(ex) == ex # <<>>

\* a skip test that forgets the submissions in flight
skips_completed_only(ex) == ex # <<>> /\ ex[1].status = "completed"

\* the skip test of process_submissions
already_processed(ex) == ex # <<>> /\ ex[1].status \in {"completed", "processing"}

\* the except branch of process_submissions: the store after it
record_error(d, ex, text) ==
    IF ex # <<>> THEN update_submission_status(d, ex[1].id, "error", <<text>>) ELSE d

\* a first write that stores the terminal status at once
begins_completed(d, ex, folder_id) ==
    IF ex # <<>>
    THEN update_submission_status(d, ex[1].id, "completed", <<>>)
    ELSE create_submission(d, [new_submission(folder_id, folder_name(folder_id))
                                  EXCEPT !.status = "completed"])

\* a first write that ignores the row the lookup found
always_creates(d, ex, folder_id) ==
    create_submission(d, new_submission(folder_id, folder_name(folder_id)))

\* the store when _process_single_submission has made its first write
mark_processing(d, ex, folder_id) ==
    IF ex # <<>>
    THEN update_submission_status(d, ex[1].id, "processing", <<>>)
    ELSE create_submission(d, new_submission(folder_id, folder_name(folder_id)))

\* a grading condition that forgets the category
grades_any_category(category, content) == content.chars > 0

\* the grading condition of _process_document
should_grade(category, content) == category # "other" /\ content.chars > 0

VARIABLES
    db,                 \* the DatabaseService: rows and id counters
    api_key,            \* settings.OPENAI_API_KEY is set
    pc,                 \* where process_submissions is: idle, loop, single, docs
    submission_folders, \* the folders the for loop has still to take, current first
    existing,           \* <<>> or <<the Submission found for the folder>>
    submission_id,      \* id of the submission being processed
    documents,          \* the documents the inner loop has still to take
    processed_ids,      \* the list process_submissions builds and returns
    outcome,            \* how the last call of process_submissions ended
    faults,             \* failures (exceptions, interruptions) so far
    last,               \* history: <<>> or how the loop body last ended
    status_writes,      \* history: the status writes of the last step, in order
    attempt,            \* history: what each document of the last attempt did
    call,               \* one call of a pure function: its inputs and its result
    workers             \* two concurrent calls of process_submissions: their locals

\* the state of the workflow and its store
workflow_vars == <<db, api_key, pc, submission_folders, existing, submission_id,
                   documents, processed_ids, outcome, faults, last, status_writes, attempt>>

\* what a step of process_submissions leaves alone
outside == <<call, workers>>

vars == <<workflow_vars, outside>>

\* no pure function is being called
NoCall == [op |-> "none"]

\* the status a submission has in the store, "absent" without a row
status_of(d, id) ==
    IF get_submission(d, id) = <<>> THEN "absent" ELSE get_submission(d, id)[1].status

\* history record of one status write of id to status `to` on store d
status_write(d, id, to) == [id |-> id, from |-> status_of(d, id), to |-> to]

\* history record of how the loop body ended for the folder in hand: kind is
\* skipped, completed, escaped (the except branch ran and the loop goes on) or
\* raised (process_submissions re-raised); rest are the folders not yet taken
ending(kind, stage, text) ==
    <<[kind |-> kind,
       stage |-> stage,
       text |-> text,
       folder_id |-> Head(submission_folders),
       rest |-> Tail(submission_folders)]>>

\* the locals of _process_single_submission are gone when it is left
leave_submission ==
    /\ existing' = <<>>
    /\ submission_id' = 0
    /\ documents' = <<>>

\* process_submissions is left (return, raise or interruption): its locals are gone
leave_run ==
    /\ pc' = "idle"
    /\ submission_folders' = <<>>
    /\ leave_submission

\* the workflow after construction: nothing processed, the store empty
workflow_init ==
    /\ db = empty_store
    /\ api_key \in BOOLEAN
    /\ pc = "idle"
    /\ submission_folders = <<>>
    /\ existing = <<>>
    /\ submission_id = 0
    /\ documents = <<>>
    /\ processed_ids = <<>>
    /\ outcome = "none"
    /\ faults = 0
    /\ last = <<>>
    /\ status_writes = <<>>
    /\ attempt = <<>>

\* the invocations that may run at the same time over one source and one store
Invocations == {1, 2}

\* the locals of a call of process_submissions that has not started; taken is
\* history: the containers the call has begun to process.  For a user of the
\* store: memory is <<>> or <<the rows and counters of its own DatabaseService>>,
\* kind and sid are the create call it is in and the id that call has read,
\* created is history: the kind and id of every create call that returned
idle_worker ==
    [pc |-> "idle", listing |-> <<>>, submission_folders |-> <<>>, existing |-> <<>>,
     submission_id |-> 0, documents |-> <<>>, taken |-> {},
     memory |-> <<>>, kind |-> "none", sid |-> 0, created |-> <<>>]

\* no concurrent call is running
NoWorkers == [w \in Invocations |-> idle_worker]

Init == workflow_init /\ call = NoCall /\ workers = NoWorkers

\* a caller registers a container that has no row yet, with the schema's default
\* status (DatabaseService.create_submission outside the orchestrator)
register_pending ==
    /\ pc = "idle"
    /\ UNCHANGED outside
    /\ \E f \in Folders :
        /\ get_submission_by_folder_id(db, f) = <<>>
        /\ db' = create_submission(db, pending_submission(f, folder_name(f)))
    /\ status_writes' = <<>>
    /\ UNCHANGED <<api_key, pc, submission_folders, existing, submission_id, documents,
                   processed_ids, outcome, faults, last, attempt>>

\* process_submissions up to the loop: list_submissions returns or raises
process_submissions ==
    /\ pc = "idle"
    /\ UNCHANGED outside
    /\ processed_ids' = <<>>
    /\ last' = <<>>
    /\ attempt' = <<>>
    /\ status_writes' = <<>>
    /\ \/ /\ \E folders \in Listings : submission_folders' = folders
          /\ pc' = "loop"
          /\ outcome' = "running"
          /\ UNCHANGED <<faults, existing, submission_id, documents>>
       \/ /\ faults < MaxFaults
          /\ faults' = faults + 1
          /\ outcome' = "raised"
          /\ leave_run
    /\ UNCHANGED <<db, api_key>>

\* the head of the loop body: look the folder up, skip it or go on
check_existing ==
    /\ pc = "loop"
    /\ UNCHANGED outside
    /\ submission_folders # <<>>
    /\ attempt' = <<>>
    /\ status_writes' = <<>>
    /\ LET ex == get_submission_by_folder_id(db, Head(submission_folders))
       IN  \/ /\ already_processed(ex)
              /\ submission_folders' = Tail(submission_folders)
              /\ last' = ending("skipped", "lookup", "")
              /\ UNCHANGED <<pc, existing, submission_id, documents, processed_ids,
                             outcome, faults>>
           \/ /\ ~already_processed(ex)
              /\ existing' = ex
              /\ pc' = "single"
              /\ last' = <<>>
              /\ UNCHANGED <<submission_folders, submission_id, documents,
                             processed_ids, outcome, faults>>
           \/ /\ faults < MaxFaults
              /\ faults' = faults + 1
              /\ outcome' = "raised"
              /\ last' = ending("raised", "lookup", "")
              /\ processed_ids' = <<>>
              /\ leave_run
    /\ UNCHANGED <<db, api_key>>

\* an exception with text str(e) leaves _process_single_submission at the given
\* stage, with the store at d after the status writes w: the except branch
\* records it and the loop goes on, unless the status write of the except branch
\* raises too and process_submissions re-raises.  The caller sets attempt'.
escape(d, w, text, stage) ==
    /\ faults < MaxFaults
    /\ faults' = faults + 1
    /\ db' = record_error(d, existing, text)
    /\ status_writes' = IF existing # <<>>
                        THEN Append(w, status_write(d, existing[1].id, "error"))
                        ELSE w
    /\ \/ /\ pc' = "loop"
          /\ submission_folders' = Tail(submission_folders)
          /\ last' = ending("escaped", stage, text)
          /\ leave_submission
          /\ UNCHANGED <<processed_ids, outcome>>
       \/ /\ existing # <<>>
          /\ outcome' = "raised"
          /\ last' = ending("raised", "except branch", text)
          /\ processed_ids' = <<>>
          /\ leave_run
    /\ UNCHANGED api_key

\* _process_single_submission up to the document loop: the status write or the
\* creation, then list_documents
process_single_submission ==
    /\ pc = "single"
    /\ UNCHANGED outside
    /\ attempt' = <<>>
    /\ LET folder_id == Head(submission_folders)
           sid == IF existing # <<>> THEN existing[1].id ELSE db.next_submission_id
           d == mark_processing(db, existing, folder_id)
           w == <<status_write(db, sid, "processing")>>
       IN  \/ /\ db' = d
              /\ status_writes' = w
              /\ submission_id' = sid
              /\ documents' = list_documents(folder_id)
              /\ pc' = "docs"
              /\ UNCHANGED <<api_key, submission_folders, existing, processed_ids,
                             outcome, faults, last>>
           \/ \E text \in ExceptionTexts : escape(d, w, text, "begin")

\* what the delegated scoring service can do on one call
ServiceOutcomes ==
    {[raises |-> TRUE, text |-> <<>>]}
    \cup {[raises |-> FALSE, text |-> r] : r \in ServiceResponses}

\* the Document _process_document builds
new_document(submission, doc_metadata, category) ==
    [name |-> doc_metadata.name,
     google_drive_id |-> doc_metadata.id,
     mime_type |-> doc_metadata.mimeType,
     category |-> category,
     submission_id |-> submission,
     file_size |-> doc_metadata.size,
     processed |-> FALSE]

\* a Score that does not name its document
new_score_unlinked(document_id, category, grading_result) ==
    [document_id |-> 0,
     category |-> category,
     total_score |-> grading_result.total_score,
     max_score |-> grading_result.max_score,
     criteria_scores |-> grading_result.criteria_scores,
     feedback |-> grading_result.feedback]

\* the Score _process_document builds from a grading result
new_score(document_id, category, grading_result) ==
    [document_id |-> document_id,
     category |-> category,
     total_score |-> grading_result.total_score,
     max_score |-> grading_result.max_score,
     criteria_scores |-> grading_result.criteria_scores,
     feedback |-> grading_result.feedback]

\* the try block of _process_document from create_document on: the store it
\* leaves when the store call named by store_fault raises in _save (the rows
\* written so far stay), or when none does
document_writes(d, submission, doc_metadata, content, category, grading_result, store_fault) ==
    LET document_id == d.next_document_id
        d1 == create_document(d, submission,
                              new_document(submission, doc_metadata, category))
        d2 == IF should_grade(category, content)
              THEN create_score(d1, submission,
                                new_score(document_id, category, grading_result))
              ELSE d1
        d3 == update_document(d2, document_id, TRUE)
    IN  CASE store_fault = "create_document" -> d1
          [] store_fault = "create_score" -> d2
          [] OTHER -> d3

\* no call of the delegated service
NoService == [raises |-> FALSE, text |-> <<>>]

\* _process_document for the next document: the metadata access outside the
\* try, then extraction, classification, the Document row, grading, the Score
\* row and the processed flag inside it.  extraction, store_fault and service
\* say what the extractor, the store calls and the delegated service do.
process_document ==
    /\ pc = "docs"
    /\ UNCHANGED outside
    /\ documents # <<>>
    /\ \/ /\ escape(db, <<>>, "KeyError", "document")
          /\ attempt' = Append(attempt,
                               [google_drive_id |-> Head(documents).id,
                                fault |-> "metadata",
                                extraction |-> "none",
                                service_raised |-> FALSE,
                                category |-> "none",
                                graded |-> FALSE,
                                document_id |-> 0,
                                score_id |-> 0])
       \/ \E extraction \in {"text", "raises"},
             store_fault \in {"none", "create_document", "create_score",
                              "update_document"} :
          \E content \in {IF extraction = "text"
                          THEN file_text(Head(documents).id) ELSE EmptyContent} :
          \E category \in {classify(Head(documents).name, Head(documents).mimeType,
                                    content)} :
          \E graded \in {should_grade(category, content)
                            /\ store_fault # "create_document"} :
          \E service \in IF graded /\ api_key THEN ServiceOutcomes ELSE {NoService} :
          \E grading_result \in {grade_document(category, content,
                                                Head(documents).name, api_key,
                                                service)} :
          \E raised \in {(IF extraction = "raises" THEN 1 ELSE 0)
                         + (IF service.raises THEN 1 ELSE 0)
                         + (IF store_fault # "none" THEN 1 ELSE 0)} :
                /\ store_fault = "create_score" => graded
                /\ faults + raised <= MaxFaults
                /\ faults' = faults + raised
                /\ attempt' = Append(attempt,
                                     [google_drive_id |-> Head(documents).id,
                                      fault |-> store_fault,
                                      extraction |-> extraction,
                                      service_raised |-> service.raises,
                                      category |-> category,
                                      graded |-> graded,
                                      document_id |-> db.next_document_id,
                                      score_id |-> IF graded THEN db.next_score_id
                                                   ELSE 0])
                /\ db' = document_writes(db, submission_id, Head(documents), content,
                                         category, grading_result, store_fault)
                /\ documents' = Tail(documents)
                /\ status_writes' = <<>>
                /\ UNCHANGED <<api_key, pc, submission_folders, existing,
                               submission_id, processed_ids, outcome, last>>

\* the end of _process_single_submission: the completed write, and the id
\* appended to processed_ids when it returns
complete_submission ==
    /\ pc = "docs"
    /\ UNCHANGED outside
    /\ documents = <<>>
    /\ UNCHANGED attempt
    /\ LET d == update_submission_status(db, submission_id, "completed", <<>>)
           w == <<status_write(db, submission_id, "completed")>>
       IN  \/ /\ db' = d
              /\ status_writes' = w
              /\ processed_ids' = Append(processed_ids, submission_id)
              /\ last' = ending("completed", "complete", "")
              /\ submission_folders' = Tail(submission_folders)
              /\ pc' = "loop"
              /\ leave_submission
              /\ UNCHANGED <<api_key, outcome, faults>>
           \/ \E text \in ExceptionTexts : escape(d, w, text, "complete")

\* the loop is over: process_submissions returns processed_ids
return_processed_ids ==
    /\ pc = "loop"
    /\ UNCHANGED outside
    /\ submission_folders = <<>>
    /\ outcome' = "returned"
    /\ last' = <<>>
    /\ attempt' = <<>>
    /\ status_writes' = <<>>
    /\ leave_run
    /\ UNCHANGED <<db, api_key, processed_ids, faults>>

\* the run is cut short by something `except Exception` does not catch
\* (KeyboardInterrupt, the process being killed)
interrupt ==
    /\ pc # "idle"
    /\ UNCHANGED outside
    /\ faults < MaxFaults
    /\ faults' = faults + 1
    /\ outcome' = "interrupted"
    /\ processed_ids' = <<>>
    /\ last' = <<>>
    /\ attempt' = <<>>
    /\ status_writes' = <<>>
    /\ leave_run
    /\ UNCHANGED <<db, api_key>>

Next ==
    \/ register_pending
    \/ process_submissions
    \/ check_existing
    \/ process_single_submission
    \/ process_document
    \/ complete_submission
    \/ return_processed_ids
    \/ interrupt

Spec == Init /\ [][Next]_vars

\* repeated runs over the whole source: every run that starts goes on step by
\* step to its end, and runs whose listing holds every container keep being started
full_run ==
    /\ process_submissions
    /\ pc' = "loop"
    /\ \A f \in Folders : \E i \in 1..Len(submission_folders') : submission_folders'[i] = f

\* the start without an API key, the default of settings.OPENAI_API_KEY
InitNoKey == Init /\ ~api_key

FairSpec ==
    /\ InitNoKey
    /\ [][Next]_vars
    /\ WF_vars(check_existing \/ process_single_submission \/ process_document
                  \/ complete_submission \/ return_processed_ids)
    /\ SF_vars(full_run)

\* ------------------------------------------------- calls of pure functions
\* words a file name is made of, some carrying a keyword in upper or lower case
NameWords ==
    {"scan", "Essay", "essay", "Transcript", "GPA", "letter", "reference",
     "personal statement"}

\* file name extensions
Extensions == {".pdf", ".txt", ".xlsx", ".zip"}

\* file names: one word or two words joined by an underscore, and an extension
FileNames ==
    {<<w, e>> : w \in NameWords, e \in Extensions}
    \cup {<<w[1], "_", w[2], e>> : w \in NameWords \X NameWords, e \in Extensions}

\* contents: none, or a text holding one word
Contents ==
    {EmptyContent}
    \cup {[chars |-> 40, toks |-> <<w>>] :
              w \in {"random", "Essay", "transcript", "recommendation", "gpa"}}

\* the calls classify(file_name, mime_type, content) that are tried
ClassifyCalls ==
    {[op |-> "classify", done |-> FALSE, file_name |-> n, mime_type |-> m,
      content |-> c, result |-> ""] :
         n \in FileNames, m \in {"application/pdf", ""}, c \in Contents}

\* DocumentClassifier.classify is called and returns
apply_classify ==
    /\ call.op = "classify"
    /\ ~call.done
    /\ call' = [call EXCEPT !.done = TRUE,
                            !.result = classify(call.file_name, call.mime_type,
                                                call.content)]
    /\ UNCHANGED <<workflow_vars, workers>>

\* the lines a response of the delegated service is made of
ResponseLines ==
    { <<"SCORE", ":", " ", "85">>,
      <<"CRITERIA", "_SCORES", ":">>,
      <<"Clarity", ":", " ", "20">>,
      <<"style", ":", " ", "20">>,
      <<"gpa", ":", " ", "85">>,
      <<"FEEDBACK", ":", " ", "good">> }

\* the responses of at most three lines
GradeResponses ==
    {<<>>} \cup {<<a>> : a \in ResponseLines}
    \cup {<<a, b>> : a \in ResponseLines, b \in ResponseLines}
    \cup {<<a, b, c>> : a \in ResponseLines, b \in ResponseLines, c \in ResponseLines}

\* what the delegated service does on a call: it raises or answers
GradeServices ==
    {[raises |-> TRUE, text |-> <<>>]}
    \cup {[raises |-> FALSE, text |-> r] : r \in GradeResponses}

\* the calls grade_document(category, content, file_name) that are tried, with
\* and without settings.OPENAI_API_KEY
GradeCalls ==
    {[op |-> "grade_document", done |-> FALSE, category |-> c, content |-> t,
      file_name |-> <<"doc", ".pdf">>, key |-> k, service |-> v, result |-> <<>>] :
         c \in {"essay", "transcript", "letter_of_recommendation", "other", "memo"},
         t \in {EmptyContent,
                [chars |-> 40, toks |-> <<"random">>],
                [chars |-> 600, toks |-> <<"Excellent", " ", "Essay">>]},
         k \in BOOLEAN,
         v \in GradeServices}

\* GradingAgent.grade_document is called and returns
apply_grade_document ==
    /\ call.op = "grade_document"
    /\ ~call.done
    /\ call' = [call EXCEPT !.done = TRUE,
                            !.result = grade_document(call.category, call.content,
                                                      call.file_name, call.key,
                                                      call.service)]
    /\ UNCHANGED <<workflow_vars, workers>>

\* the pieces a container name is made of
NamePieces == {"Ann Lee", " - ", "ann@example.com", "Jr"}

\* the container names of at most four pieces
FolderNames ==
    {<<>>} \cup {<<a>> : a \in NamePieces}
    \cup {<<a, b>> : a \in NamePieces, b \in NamePieces}
    \cup {<<a, b, c>> : a \in NamePieces, b \in NamePieces, c \in NamePieces}
    \cup {<<a, b, c, d>> : a \in NamePieces, b \in NamePieces, c \in NamePieces,
                            d \in NamePieces}

\* the container names a new Submission is built from
NameCalls ==
    {[op |-> "new_submission", done |-> FALSE, folder_name |-> n, result |-> <<>>] :
         n \in FolderNames}

\* _process_single_submission builds the Submission of a new container
apply_new_submission ==
    /\ call.op = "new_submission"
    /\ ~call.done
    /\ call' = [call EXCEPT !.done = TRUE,
                            !.result = new_submission("f1", call.folder_name)]
    /\ UNCHANGED <<workflow_vars, workers>>

\* the lines a response to the grading prompt is made of: SCORE lines with a
\* number and with a word, the section headers, criterion lines, a line with a
\* colon that is no criterion, a line without a colon and an empty line
ParseLines ==
    { <<"SCORE", ":", " ", "85">>,
      <<"SCORE", ":", " ", "150">>,
      <<"SCORE", ":", " ", "high">>,
      <<"CRITERIA", "_SCORES", ":">>,
      <<"clarity", ":", " ", "20">>,
      <<"Note", ":", " ", "see", " ", "above">>,
      <<"FEEDBACK", ":", " ", "good">>,
      <<"well", " ", "done">>,
      <<>> }

\* the responses of at most three lines
ParseResponses ==
    {<<>>} \cup {<<a>> : a \in ParseLines}
    \cup {<<a, b>> : a \in ParseLines, b \in ParseLines}
    \cup {<<a, b, c>> : a \in ParseLines, b \in ParseLines, c \in ParseLines}

\* the calls _parse_grading_response(category, response, rubric) that are tried
ParseCalls ==
    {[op |-> "parse_grading_response", done |-> FALSE, category |-> c,
      response |-> r, result |-> <<>>] :
         c \in {"essay", "transcript"}, r \in ParseResponses}

\* GradingAgent._parse_grading_response is called and returns
apply_parse_grading_response ==
    /\ call.op = "parse_grading_response"
    /\ ~call.done
    /\ call' = [call EXCEPT !.done = TRUE,
                            !.result = parse_grading_response(
                                           call.category, call.response,
                                           SCORING_RUBRIC[call.category])]
    /\ UNCHANGED <<workflow_vars, workers>>

\* contents by length, around the 500 characters of _grade_with_rules, with and
\* without a quality word
RuleContents ==
    {EmptyContent}
    \cup {[chars |-> n, toks |-> t] :
             n \in {40, 499, 500, 501, 600},
             t \in {<<"random">>, <<"Excellent", " ", "Essay">>,
                    <<"demonstrated">>}}

\* the calls _grade_with_rules(category, content, rubric) that are tried
RuleCalls ==
    {[op |-> "grade_with_rules", done |-> FALSE, category |-> c, content |-> t,
      result |-> <<>>] :
         c \in DOMAIN SCORING_RUBRIC, t \in RuleContents}

\* GradingAgent._grade_with_rules is called and returns
apply_grade_with_rules ==
    /\ call.op = "grade_with_rules"
    /\ ~call.done
    /\ call' = [call EXCEPT !.done = TRUE,
                            !.result = grade_with_rules(call.category, call.content,
                                                        SCORING_RUBRIC[call.category])]
    /\ UNCHANGED <<workflow_vars, workers>>

\* the lines an answer to the classification prompt is made of
AnswerLines ==
    { <<"category", ":", " ", "essay">>,
      <<"category", ":", " ", "transcript">>,
      <<"Category", ":", " ", "essay">>,
      <<"confidence", ":", " ", "0">>,
      <<"confidence", ":", " ", "high">>,
      <<"I", " ", "think", " ", "essay">> }

\* the answers of at most two lines
Answers ==
    {<<>>} \cup {<<a>> : a \in AnswerLines}
    \cup {<<a, b>> : a \in AnswerLines, b \in AnswerLines}

\* what the delegated classification does on a call: it raises or answers
AnswerServices ==
    {[raises |-> TRUE, text |-> <<>>]}
    \cup {[raises |-> FALSE, text |-> r] : r \in Answers}

\* the calls classify_by_ai(file_name, content) that are tried, with and without
\* settings.OPENAI_API_KEY
AiCalls ==
    {[op |-> "classify_by_ai", done |-> FALSE, file_name |-> n, content |-> c,
      key |-> k, service |-> v, result |-> <<>>] :
         n \in {<<"Essay", ".pdf">>, <<"scan", ".pdf">>, <<"GPA", ".xlsx">>},
         c \in {EmptyContent, [chars |-> 40, toks |-> <<"transcript">>]},
         k \in BOOLEAN,
         v \in AnswerServices}

\* DocumentClassifier.classify_by_ai is called and returns
apply_classify_by_ai ==
    /\ call.op = "classify_by_ai"
    /\ ~call.done
    /\ call' = [call EXCEPT !.done = TRUE,
                            !.result = classify_by_ai(call.file_name, call.content,
                                                      call.key, call.service)]
    /\ UNCHANGED <<workflow_vars, workers>>


PureInit ==
    /\ workflow_init
    /\ workers = NoWorkers
    /\ call \in ClassifyCalls \cup GradeCalls \cup NameCalls \cup ParseCalls
                \cup RuleCalls \cup AiCalls

PureNext ==
    \/ apply_classify
    \/ apply_grade_document
    \/ apply_new_submission
    \/ apply_parse_grading_response
    \/ apply_grade_with_rules
    \/ apply_classify_by_ai

PureSpec == PureInit /\ [][PureNext]_vars

\* ---- two calls of process_submissions at the same time ----
\* Each call runs the code of process_submissions on its own locals and on the
\* one store; a step is one call of the store or of the source, the points at
\* which the code of another thread can run.  No call raises here.

\* the locals of the sequential workflow, idle while the concurrent calls run
sequential_locals == <<api_key, pc, submission_folders, existing, submission_id,
                       documents, processed_ids, outcome, faults, last,
                       status_writes, attempt, call>>

\* process_submissions of call w up to the loop: both calls list the same source
conc_process_submissions(w) ==
    /\ workers[w].pc = "idle"
    /\ \E folders \in Listings :
          /\ \A v \in Invocations :
                workers[v].pc # "idle" => workers[v].listing = folders
          /\ workers' = [workers EXCEPT ![w].pc = "loop",
                                        ![w].listing = folders,
                                        ![w].submission_folders = folders]
    /\ UNCHANGED <<db, sequential_locals>>

\* the lookup and the skip test of call w
conc_check_existing(w) ==
    /\ workers[w].pc = "loop"
    /\ workers[w].submission_folders # <<>>
    /\ LET ex == get_submission_by_folder_id(db, Head(workers[w].submission_folders))
       IN  workers' = IF already_processed(ex)
                      THEN [workers EXCEPT ![w].submission_folders = Tail(@)]
                      ELSE [workers EXCEPT ![w].existing = ex, ![w].pc = "single"]
    /\ UNCHANGED <<db, sequential_locals>>

\* the first write of _process_single_submission in call w, then list_documents
conc_process_single_submission(w) ==
    /\ workers[w].pc = "single"
    /\ LET folder_id == Head(workers[w].submission_folders)
           ex == workers[w].existing
       IN  /\ db' = mark_processing(db, ex, folder_id)
           /\ workers' = [workers EXCEPT
                             ![w].pc = "docs",
                             ![w].submission_id = IF ex # <<>> THEN ex[1].id
                                                  ELSE db.next_submission_id,
                             ![w].documents = list_documents(folder_id),
                             ![w].taken = @ \cup {folder_id}]
    /\ UNCHANGED sequential_locals

\* _process_document of call w for its next document
conc_process_document(w) ==
    /\ workers[w].pc = "docs"
    /\ workers[w].documents # <<>>
    /\ \E content \in {file_text(Head(workers[w].documents).id)} :
       \E category \in {classify(Head(workers[w].documents).name,
                                 Head(workers[w].documents).mimeType, content)} :
       \E service \in IF should_grade(category, content) /\ api_key
                      THEN {s \in ServiceOutcomes : ~s.raises} ELSE {NoService} :
          db' = document_writes(db, workers[w].submission_id,
                                Head(workers[w].documents), content, category,
                                grade_document(category, content,
                                               Head(workers[w].documents).name,
                                               api_key, service),
                                "none")
    /\ workers' = [workers EXCEPT ![w].documents = Tail(@)]
    /\ UNCHANGED sequential_locals

\* the completed write of call w
conc_complete_submission(w) ==
    /\ workers[w].pc = "docs"
    /\ workers[w].documents = <<>>
    /\ db' = update_submission_status(db, workers[w].submission_id, "completed", <<>>)
    /\ workers' = [workers EXCEPT ![w].pc = "loop",
                                  ![w].submission_folders = Tail(@),
                                  ![w].existing = <<>>,
                                  ![w].submission_id = 0]
    /\ UNCHANGED sequential_locals

\* call w returns
conc_return_processed_ids(w) ==
    /\ workers[w].pc = "loop"
    /\ workers[w].submission_folders = <<>>
    /\ workers' = [workers EXCEPT ![w].pc = "returned"]
    /\ UNCHANGED <<db, sequential_locals>>

ConcNext ==
    \E w \in Invocations :
        \/ conc_process_submissions(w)
        \/ conc_check_existing(w)
        \/ conc_process_single_submission(w)
        \/ conc_process_document(w)
        \/ conc_complete_submission(w)
        \/ conc_return_processed_ids(w)

ConcSpec == Init /\ [][ConcNext]_vars

\* ---- two users of the store at the same time ----
\* Two threads call the create methods of one DatabaseService, or two
\* DatabaseService objects work on one store file.  A step is one statement of
\* a create method.  db is the DatabaseService the threads share in the first
\* case and the store file in the second; no call raises here.

\* the three create methods
Kinds == {"submission", "document", "score"}

\* the store user w works on: the shared one or its own
store_of(w) == IF workers[w].memory = <<>> THEN db ELSE workers[w].memory[1]

\* the counter a create method of the given kind reads
next_id(d, kind) ==
    CASE kind = "submission" -> d.next_submission_id
      [] kind = "document" -> d.next_document_id
      [] OTHER -> d.next_score_id

\* the store after `self.next_<kind>_id += 1`
incremented(d, kind) ==
    CASE kind = "submission" -> [d EXCEPT !.next_submission_id = @ + 1]
      [] kind = "document" -> [d EXCEPT !.next_document_id = @ + 1]
      [] OTHER -> [d EXCEPT !.next_score_id = @ + 1]

\* the store after the append of the item built with id sid
item_appended(d, kind, sid) ==
    CASE kind = "submission" ->
            [d EXCEPT !.submissions =
                create_submission([d EXCEPT !.next_submission_id = sid],
                                  new_submission("f1", folder_name("f1"))).submissions]
      [] kind = "document" ->
            [d EXCEPT !.documents =
                create_document([d EXCEPT !.next_document_id = sid], 1,
                                new_document(1, list_documents("f1")[1],
                                             "essay")).documents]
      [] OTHER ->
            [d EXCEPT !.scores =
                create_score([d EXCEPT !.next_score_id = sid], 1,
                             new_score(1, "essay",
                                       grade_with_rules("essay", file_text("d1"),
                                                        SCORING_RUBRIC["essay"]))).scores]

\* user w and the store it works on become worker and d
store_step(w, worker, d) ==
    IF workers[w].memory = <<>>
    THEN /\ db' = d
         /\ workers' = [workers EXCEPT ![w] = worker]
    ELSE /\ db' = db
         /\ workers' = [workers EXCEPT ![w] = [worker EXCEPT !.memory = <<d>>]]

\* user w is a thread that calls the DatabaseService the others share
alloc_share(w) ==
    /\ workers[w].pc = "idle"
    /\ \A v \in Invocations : workers[v].memory = <<>>
    /\ workers' = [workers EXCEPT ![w].pc = "ready"]
    /\ UNCHANGED <<db, sequential_locals>>

\* user w constructs its own DatabaseService: _load reads the store file
alloc_load(w) ==
    /\ workers[w].pc = "idle"
    /\ \A v \in Invocations : workers[v].pc # "idle" => workers[v].memory # <<>>
    /\ workers' = [workers EXCEPT ![w].pc = "ready", ![w].memory = <<db>>]
    /\ UNCHANGED <<db, sequential_locals>>

\* a create method starts: the id is read from the counter
alloc_read(w) ==
    /\ workers[w].pc = "ready"
    /\ Len(workers[w].created) < MaxCreates
    /\ \E kind \in Kinds :
          workers' = [workers EXCEPT ![w].pc = "read",
                                     ![w].kind = kind,
                                     ![w].sid = next_id(store_of(w), kind)]
    /\ UNCHANGED <<db, sequential_locals>>

\* the counter is incremented
alloc_increment(w) ==
    /\ workers[w].pc = "read"
    /\ store_step(w, [workers[w] EXCEPT !.pc = "incremented"],
                  incremented(store_of(w), workers[w].kind))
    /\ UNCHANGED sequential_locals

\* the item is appended to its table
alloc_append(w) ==
    /\ workers[w].pc = "incremented"
    /\ store_step(w, [workers[w] EXCEPT !.pc = "appended"],
                  item_appended(store_of(w), workers[w].kind, workers[w].sid))
    /\ UNCHANGED sequential_locals

\* _save replaces the store file by the rows and counters of the
\* DatabaseService, and the create method returns the id
alloc_save(w) ==
    /\ workers[w].pc = "appended"
    /\ db' = store_of(w)
    /\ workers' = [workers EXCEPT
                      ![w].pc = "ready",
                      ![w].kind = "none",
                      ![w].sid = 0,
                      ![w].created = Append(@, [kind |-> workers[w].kind,
                                                id |-> workers[w].sid])]
    /\ UNCHANGED sequential_locals

AllocNext ==
    \E w \in Invocations :
        \/ alloc_share(w)
        \/ alloc_load(w)
        \/ alloc_read(w)
        \/ alloc_increment(w)
        \/ alloc_append(w)
        \/ alloc_save(w)

AllocSpec == Init /\ [][AllocNext]_vars

\* ------------------------------------------------------------- properties
\* the status stored for a container, "absent" without a row
folder_status(f) ==
    IF get_submission_by_folder_id(db, f) = <<>> THEN "absent"
    ELSE get_submission_by_folder_id(db, f)[1].status

\* everything the store holds for one submission
rows_of(d, id) ==
    [submission |-> get_submission(d, id),
     documents |-> SelectSeq(d.documents, LAMBDA r : r.submission_id = id),
     scores |-> SelectSeq(d.scores, LAMBDA r : r.submission_id = id)]

\* the id of the submission _process_single_submission is working on, 0 outside it
in_hand ==
    IF pc = "single"
    THEN (IF existing # <<>> THEN existing[1].id ELSE db.next_submission_id)
    ELSE IF pc = "docs" THEN submission_id ELSE 0

\* the step in which the loop meets a container stored as completed or processing
\* writes nothing and does not enter _process_single_submission
skip_step ==
    (/\ pc = "loop"
     /\ submission_folders # <<>>
     /\ folder_status(Head(submission_folders)) \in {"completed", "processing"})
    => (/\ db' = db
        /\ pc' \in {"loop", "idle"}
        /\ existing' = <<>>
        /\ \A i \in 1..Len(processed_ids') : processed_ids'[i] \in
               {processed_ids[k] : k \in 1..Len(processed_ids)})

\* a step changes no row of a submission other than the one in hand
frame_step ==
    \/ db' = db
    \/ \A id \in 1..(db.next_submission_id - 1) :
          id # in_hand => rows_of(db', id) = rows_of(db, id)

\* C1: when process_submissions meets a container whose stored Submission is
\* completed or processing, that step skips it without a store write, and no
\* other step of any run writes a row of a submission it is not processing: the
\* status stays and no Document or Score row is added, run after run.
C1_skip_writes_nothing == [][skip_step /\ frame_step]_vars

\* C1 witness: a later run has just skipped a completed submission that has
\* Document rows
C1_skipped_completed ==
    /\ last # <<>>
    /\ last[1].kind = "skipped"
    /\ folder_status(last[1].folder_id) = "completed"
    /\ processed_ids = <<>>
    /\ \E i \in 1..Len(db.documents) :
          db.documents[i].submission_id =
              get_submission_by_folder_id(db, last[1].folder_id)[1].id

\* C2: for every container, new or recorded, when an exception has escaped
\* _process_single_submission and the loop moves on, the Submission of that
\* container is stored with status error and the exception text as error_message.
C2_escape_recorded ==
    (last # <<>> /\ last[1].kind = "escaped")
    => LET ex == get_submission_by_folder_id(db, last[1].folder_id)
       IN  /\ ex # <<>>
           /\ ex[1].status = "error"
           /\ ex[1].error_message = <<last[1].text>>

\* C3: under repeated runs over the whole source, a submission found in status
\* processing between runs eventually reaches completed or error.
C3_processing_leads_to_terminal ==
    \A f \in Folders :
        (pc = "idle" /\ folder_status(f) = "processing")
            ~> (folder_status(f) \in {"completed", "error"})

\* C4: process_submissions never re-raises while containers of its listing are
\* still to be handled: whatever is raised while a container is handled, looked
\* up or has its error recorded, the later containers are reached.
C4_later_containers_reached ==
    (last # <<>> /\ last[1].kind = "raised") => last[1].rest = <<>>

\* a document of the attempt that raised somewhere in its own processing
raised_in(a) == a.fault # "none" \/ a.extraction = "raises" \/ a.service_raised

\* C5: no exception leaves _process_document, so no attempt ends in the except
\* branch because of a document; and every document of the attempt that did not
\* raise has its Document row with processed = true, and a Score row when its
\* category is not other and its content is non-empty.
C5_document_faults_contained ==
    /\ last # <<>> => last[1].stage # "document"
    /\ \A i \in 1..Len(attempt) :
          ~raised_in(attempt[i]) =>
              /\ \E k \in 1..Len(db.documents) :
                    /\ db.documents[k].id = attempt[i].document_id
                    /\ db.documents[k].google_drive_id = attempt[i].google_drive_id
                    /\ db.documents[k].processed
              /\ attempt[i].graded =>
                    \E k \in 1..Len(db.scores) :
                        db.scores[k].document_id = attempt[i].document_id

\* C6: no two Document rows have the same google_drive_id.
C6_one_document_per_item ==
    \A i, k \in 1..Len(db.documents) :
        i # k => db.documents[i].google_drive_id # db.documents[k].google_drive_id

\* C7: no two Submission rows have the same submission_folder_id, after any
\* sequence of runs, with containers listed twice and runs that failed part-way.
C7_one_submission_per_folder ==
    \A i, k \in 1..Len(db.submissions) :
        i # k => db.submissions[i].submission_folder_id
                    # db.submissions[k].submission_folder_id

\* C7 witness: a container processed in this run was listed a second time in the
\* same listing and has just been met again
C7_listed_twice ==
    /\ pc = "loop"
    /\ last # <<>>
    /\ last[1].kind = "skipped"
    /\ \E i \in 1..Len(processed_ids) :
          processed_ids[i] = get_submission_by_folder_id(db, last[1].folder_id)[1].id

\* the status writes the lifecycle allows
lifecycle ==
    {<<"absent", "processing">>, <<"pending", "processing">>, <<"error", "processing">>,
     <<"processing", "completed">>, <<"processing", "error">>}

\* C8: every status write of the orchestrator is absent->processing,
\* pending->processing, error->processing, processing->completed or
\* processing->error (so never a write of pending), and a submission stored as
\* completed is still completed after every step.
C8_status_lifecycle ==
    [][/\ \A i \in 1..Len(status_writes') :
             <<status_writes'[i].from, status_writes'[i].to>> \in lifecycle
       /\ \A id \in 1..(db.next_submission_id - 1) :
             status_of(db, id) = "completed" => status_of(db', id) = "completed"]_vars

\* C9: when create_document, create_score or update_document has raised for a
\* document of the attempt, the failure has left the document loop and the
\* attempt does not end completed.
C9_store_failure_propagates ==
    \A i \in 1..Len(attempt) :
        attempt[i].fault \in {"create_document", "create_score", "update_document"}
            => /\ pc # "docs"
               /\ last # <<>>
               /\ last[1].kind # "completed"

\* C10: every Score row has 0 <= total_score <= max_score.
C10_score_within_range ==
    \A i \in 1..Len(db.scores) :
        /\ 0 <= db.scores[i].total_score
        /\ db.scores[i].total_score <= db.scores[i].max_score

\* the keys of the category table
category_keys == {DOCUMENT_CATEGORIES[i].name : i \in 1..Len(DOCUMENT_CATEGORIES)}

\* the keywords configured for a category
keywords_of(c) ==
    UNION {{DOCUMENT_CATEGORIES[i].keywords[k] :
                k \in 1..Len(DOCUMENT_CATEGORIES[i].keywords)} :
              i \in {j \in 1..Len(DOCUMENT_CATEGORIES) : DOCUMENT_CATEGORIES[j].name = c}}

\* a keyword of category c occurs, in any case, in the file name or the content
\* of the call
keyword_occurs(c) ==
    \E kw \in keywords_of(c) :
        \/ \E i \in 1..Len(call.file_name) : lower_token(call.file_name[i]) = kw
        \/ \E i \in 1..Len(call.content.toks) : lower_token(call.content.toks[i]) = kw

\* a call of classify has returned
classified == call.op = "classify" /\ call.done

\* C14: classify returns, for every file name, mime type and content, a key of
\* the category table, "other" when no keyword of any category occurs, the same
\* value whenever it is applied to the same inputs, and changes nothing else; a
\* Document row built from the result has a category that is a key of the table.
C14_classify_total ==
    classified =>
        /\ call.result \in category_keys
        /\ (\A c \in category_keys : ~keyword_occurs(c)) => call.result = "other"
        /\ call.result = classify(call.file_name, call.mime_type, call.content)
        /\ new_document(1, [id |-> "d", name |-> call.file_name,
                            mimeType |-> call.mime_type, size |-> 0],
                        call.result).category \in category_keys
        /\ db = empty_store
        /\ pc = "idle"

\* C14 witness: a .pdf file without any keyword has been classified as other
C14_pdf_without_keyword ==
    /\ classified
    /\ call.file_name = <<"scan", ".pdf">>
    /\ call.content.toks = <<"random">>
    /\ call.result = "other"

\* C15: classify returns the first of essay, transcript,
\* letter_of_recommendation one of whose keywords occurs, in any case, in the
\* file name or the content, and other when none does.
C15_first_match ==
    classified =>
        call.result = IF keyword_occurs("essay") THEN "essay"
                      ELSE IF keyword_occurs("transcript") THEN "transcript"
                      ELSE IF keyword_occurs("letter_of_recommendation")
                           THEN "letter_of_recommendation"
                      ELSE "other"

\* C15 witness: keywords of essay (in the content, in upper case) and of
\* transcript (in the name) occur, and the earlier category is returned
C15_two_categories ==
    /\ classified
    /\ call.file_name = <<"Transcript", "_", "letter", ".xlsx">>
    /\ call.content.toks = <<"Essay">>
    /\ call.result = "essay"

\* a call of grade_document has returned
graded == call.op = "grade_document" /\ call.done

\* the criterion names configured for the category of the call
rubric_criteria ==
    {SCORING_RUBRIC[call.category].criteria[i].name :
        i \in 1..Len(SCORING_RUBRIC[call.category].criteria)}

\* the names n for which the response of the call has a line "n: number",
\* lower-cased
scored_names ==
    {lower_token(call.service.text[i][1]) :
        i \in {j \in 1..Len(call.service.text) :
                  /\ Len(call.service.text[j]) = 4
                  /\ call.service.text[j][2] = ":"
                  /\ is_number(call.service.text[j][4])
                  /\ call.service.text[j][1] \notin {"SCORE", "FEEDBACK"}}}

\* C11: for a category with a rubric the keys of criteria_scores returned by
\* grade_document are criterion names of that rubric; on the service path they
\* are exactly the configured criteria among the lower-cased names of the
\* "name: number" lines, every other name being dropped.
C11_criteria_keys ==
    (graded /\ call.category \in DOMAIN SCORING_RUBRIC) =>
        /\ DOMAIN call.result.criteria_scores \subseteq rubric_criteria
        /\ (call.key /\ ~call.service.raises) =>
              DOMAIN call.result.criteria_scores = scored_names \cap rubric_criteria

\* C11 witness: a response naming a criterion in upper case, an unknown name and
\* a criterion of another rubric has been parsed for an essay
C11_unknown_names_dropped ==
    /\ graded
    /\ call.key
    /\ call.category = "essay"
    /\ call.service.text = << <<"Clarity", ":", " ", "20">>,
                              <<"style", ":", " ", "20">>,
                              <<"gpa", ":", " ", "85">> >>
    /\ DOMAIN call.result.criteria_scores = {"clarity"}

\* C12: grade_document returns, for every category, content and behaviour of
\* the service, a result with exactly the fields category, total_score,
\* max_score, criteria_scores and feedback; no exception leaves it.
C12_never_raises ==
    graded =>
        /\ DOMAIN call.result =
              {"category", "total_score", "max_score", "criteria_scores", "feedback"}
        /\ call.result.category = call.category

\* C12 witness: a call with a rubric and a key whose service raised has returned
C12_service_raised ==
    /\ graded
    /\ call.key
    /\ call.service.raises
    /\ call.category = "transcript"
    /\ call.result.total_score = 0

\* C13: when the service is configured and its call raises, grade_document
\* returns what the rule-based grader gives for the same category and content.
C13_falls_back_to_rules ==
    (graded /\ call.key /\ call.service.raises
        /\ call.category \in DOMAIN SCORING_RUBRIC) =>
        call.result = grade_with_rules(call.category, call.content,
                                       SCORING_RUBRIC[call.category])

\* C16: for a category without a rubric grade_document returns total_score 0,
\* max_score 100, no criteria and the no-rubric feedback, whatever the content,
\* the key and the service are.
C16_no_rubric ==
    (graded /\ call.category \notin DOMAIN SCORING_RUBRIC) =>
        /\ call.result.total_score = 0
        /\ call.result.max_score = 100 * 100
        /\ DOMAIN call.result.criteria_scores = {}
        /\ call.result.feedback =
              <<"No scoring rubric available for this document type.">>

\* C16 witness: a call for a category without a rubric has returned although a
\* key is set and the service would raise
C16_no_rubric_with_key ==
    /\ graded
    /\ call.category = "memo"
    /\ call.key
    /\ call.service.raises
    /\ call.content.chars = 600

\* C17: the container name is split once at its first " - ": applicant_name is
\* what precedes it and applicant_email all that follows it, a second delimiter
\* included; without a delimiter applicant_name is the whole name and
\* applicant_email is empty.
C17_split_once ==
    (call.op = "new_submission" /\ call.done) =>
        LET at == {i \in 1..Len(call.folder_name) : call.folder_name[i] = " - "}
            first == CHOOSE i \in at : \A k \in at : i <= k
        IN  IF at = {}
            THEN /\ call.result.applicant_name = call.folder_name
                 /\ call.result.applicant_email = <<>>
            ELSE /\ call.result.applicant_name = SubSeq(call.folder_name, 1, first - 1)
                 /\ call.result.applicant_email =
                       SubSeq(call.folder_name, first + 1, Len(call.folder_name))

\* the loop meets a container stored as pending or error: it enters
\* _process_single_submission with the row found, unless the lookup raises or
\* the run is interrupted
retry_entered ==
    (/\ pc = "loop"
     /\ submission_folders # <<>>
     /\ folder_status(Head(submission_folders)) \in {"pending", "error"})
    => \/ /\ pc' = "single"
          /\ existing' = get_submission_by_folder_id(db, Head(submission_folders))
       \/ outcome' \in {"raised", "interrupted"}

\* the attempt on a recorded container starts: its row is moved to processing,
\* no row is created, and every item of the container is to be iterated
retry_started ==
    (pc = "single" /\ existing # <<>> /\ pc' = "docs")
    => /\ status_of(db', existing[1].id) = "processing"
       /\ Len(db'.submissions) = Len(db.submissions)
       /\ submission_id' = existing[1].id
       /\ documents' = list_documents(Head(submission_folders))

\* the attempt on a recorded container ends and the loop goes on: its row is
\* completed or error, no row was created, and when it is completed every item
\* of the container was taken, in order
retry_ended ==
    (pc \in {"single", "docs"} /\ existing # <<>> /\ pc' = "loop")
    => /\ status_of(db', existing[1].id) \in {"completed", "error"}
       /\ Len(db'.submissions) = Len(db.submissions)
       /\ status_of(db', existing[1].id) = "completed" =>
             [i \in 1..Len(attempt') |-> attempt'[i].google_drive_id]
                = [i \in 1..Len(list_documents(Head(submission_folders))) |->
                      list_documents(Head(submission_folders))[i].id]

\* C19: a container whose Submission is stored as pending or error is taken up
\* again: its existing row is moved to processing, every item of the container
\* is iterated, and the attempt ends with that row completed or error; no new
\* Submission row is created.
C19_retry_path == [][retry_entered /\ retry_started /\ retry_ended]_vars

\* C19 witness: the retry of a submission stored as error has iterated every
\* item of its container and is about to write the terminal status
C19_error_retried ==
    /\ pc = "docs"
    /\ existing # <<>>
    /\ existing[1].status = "error"
    /\ status_of(db, submission_id) = "processing"
    /\ documents = <<>>
    /\ Len(attempt) = Len(list_documents(Head(submission_folders)))
    /\ Len(attempt) > 0

\* the submissions that have a row
submission_ids == 1..(db.next_submission_id - 1)

\* the Document and Score rows of a submission
written_rows(d, id) == [documents |-> rows_of(d, id).documents,
                        scores |-> rows_of(d, id).scores]

\* C20: a step that writes a Document or Score row of a submission (create or
\* update) finds and leaves that submission in status processing, so no terminal
\* status was written before it in the attempt; and the step that writes the
\* terminal status writes no Document or Score row.
C20_terminal_write_last ==
    [][\A id \in submission_ids :
          /\ written_rows(db', id) # written_rows(db, id) =>
                /\ status_of(db, id) = "processing"
                /\ status_of(db', id) = "processing"
          /\ (\E i \in 1..Len(status_writes') :
                 /\ status_writes'[i].id = id
                 /\ status_writes'[i].to \in {"completed", "error"}) =>
                written_rows(db', id) = written_rows(db, id)]_vars

\* C20 witness: an attempt that wrote Document rows and a Score row has just
\* written completed
C20_completed_after_rows ==
    /\ last # <<>>
    /\ last[1].kind = "completed"
    /\ status_writes # <<>>
    /\ status_writes[1].to = "completed"
    /\ Len(attempt) = 2
    /\ \E i \in 1..Len(db.scores) : db.scores[i].submission_id = status_writes[1].id
    /\ \E i \in 1..Len(db.documents) :
          /\ db.documents[i].submission_id = status_writes[1].id
          /\ db.documents[i].processed

\* the Submission rows of a container
submission_rows(f) ==
    {i \in 1..Len(db.submissions) : db.submissions[i].submission_folder_id = f}

\* C18: with two calls of process_submissions running at the same time over the
\* same source and store, no container is processed by both calls and no
\* container has two Submission rows.
C18_check_and_mark_atomic ==
    \A f \in Folders :
        /\ Cardinality(submission_rows(f)) <= 1
        /\ ~(f \in workers[1].taken /\ f \in workers[2].taken)

\* the step is a call of _process_document
document_step == Len(attempt') = Len(attempt) + 1

\* what the attempt log says of the document the step took
taken == attempt'[Len(attempt')]

\* the Score rows of a document in store d
scores_of(d, document_id) ==
    {i \in 1..Len(d.scores) : d.scores[i].document_id = document_id}

\* the Document row with the given id in store d, as <<>> or <<row>>
document_row(d, document_id) == find_by_id(d.documents, document_id)

\* the document of the step was classified other than "other", its extracted
\* content is not empty, and create_document returned its id
to_be_scored ==
    /\ taken.fault \notin {"metadata", "create_document"}
    /\ taken.category # "other"
    /\ taken.extraction = "text"
    /\ file_text(taken.google_drive_id).chars > 0

C22_processed_set ==
    [][/\ (document_step /\ taken.fault = "none") =>
             /\ document_row(db', taken.document_id) # <<>>
             /\ document_row(db', taken.document_id)[1].processed
             /\ document_row(db', taken.document_id)[1].google_drive_id
                   = taken.google_drive_id
       /\ Len(db'.documents) >= Len(db.documents)
       /\ \A i \in 1..Len(db.documents) :
              /\ db'.documents[i].id = db.documents[i].id
              /\ db.documents[i].processed => db'.documents[i].processed]_vars

\* C22 witness: a document classified other and a document with empty content
\* were not graded and are marked processed
C22_ungraded_processed ==
    \E i, k \in 1..Len(db.documents) :
        /\ db.documents[i].category = "other"
        /\ db.documents[i].processed
        /\ scores_of(db, db.documents[i].id) = {}
        /\ db.documents[k].category = "transcript"
        /\ file_text(db.documents[k].google_drive_id).chars = 0
        /\ db.documents[k].processed
        /\ scores_of(db, db.documents[k].id) = {}

\* C23: when extract_text raises and no store call does, the document is
\* classified from its name with the empty content, its Document row is created
\* with that category and marked processed, no Score row is created, and the
\* attempt goes on with the next document.
C23_extraction_failure_contained ==
    [][(document_step /\ taken.extraction = "raises" /\ taken.fault = "none") =>
          /\ taken.category = classify(Head(documents).name, Head(documents).mimeType,
                                       [chars |-> 0, toks |-> <<>>])
          /\ document_row(db', taken.document_id) # <<>>
          /\ document_row(db, taken.document_id) = <<>>
          /\ document_row(db', taken.document_id)[1].category = taken.category
          /\ document_row(db', taken.document_id)[1].processed
          /\ db'.scores = db.scores
          /\ pc' = "docs"
          /\ documents' = Tail(documents)]_vars

\* C23 witness: extraction raised for a document whose text would have made it
\* an essay; its row is there, processed, classified from the name, unscored
C23_extraction_raised ==
    /\ attempt # <<>>
    /\ attempt[1].extraction = "raises"
    /\ attempt[1].fault = "none"
    /\ attempt[1].google_drive_id = "d1"
    /\ attempt[1].category = "other"
    /\ document_row(db, attempt[1].document_id) # <<>>
    /\ document_row(db, attempt[1].document_id)[1].processed
    /\ scores_of(db, attempt[1].document_id) = {}

\* C24: no Score row is stored for a document whose grading failed because the
\* delegated service raised; a Score row with total_score 0 stands for a grader
\* that awarded zero.
C24_failed_grading_unscored ==
    \A i \in 1..Len(attempt) :
        attempt[i].service_raised => scores_of(db, attempt[i].document_id) = {}

\* a call of _parse_grading_response has returned
parsed == call.op = "parse_grading_response" /\ call.done

\* the lines of the response of the call that start with FEEDBACK:
feedback_lines ==
    {i \in 1..Len(call.response) :
        startswith(strip(call.response[i]), <<"FEEDBACK", ":">>)}

\* the first of them
first_feedback == CHOOSE i \in feedback_lines : \A k \in feedback_lines : i <= k

\* what the parser returns for the response cut after its first FEEDBACK: line
up_to_feedback ==
    parse_grading_response(call.category, SubSeq(call.response, 1, first_feedback),
                           SCORING_RUBRIC[call.category])

RECURSIVE appended(_, _, _)
\* feedback fb with every non-empty line from line i on appended, space-joined
appended(lines, i, fb) ==
    IF i > Len(lines) THEN fb
    ELSE appended(lines, i + 1,
                  IF strip(lines[i]) = <<>> THEN fb
                  ELSE fb \o <<" ">> \o strip(lines[i]))

\* C25: once a FEEDBACK: line has been read, every later non-empty line of the
\* response, whatever it holds, is appended space-joined to feedback, and
\* total_score and criteria_scores stay as they were after the FEEDBACK: line.
C25_feedback_capture ==
    (parsed /\ feedback_lines # {}) =>
        /\ call.result.total_score = up_to_feedback.total_score
        /\ call.result.criteria_scores = up_to_feedback.criteria_scores
        /\ call.result.feedback
              = strip(appended(call.response, first_feedback + 1,
                               up_to_feedback.feedback))

\* the text after the colon of a line SCORE: ..., stripped
score_text(line) == strip(SubSeq(strip(line), 3, Len(strip(line))))

\* the lines of the response of the call that are SCORE: with a number
parsable_scores ==
    {i \in 1..Len(call.response) :
        /\ startswith(strip(call.response[i]), <<"SCORE", ":">>)
        /\ Len(score_text(call.response[i])) = 1
        /\ is_number(score_text(call.response[i])[1])}

\* the value of the last of them, 0 without one
last_score ==
    IF parsable_scores = {} THEN 0
    ELSE number_value(score_text(call.response[
             CHOOSE i \in parsable_scores : \A k \in parsable_scores : i >= k])[1])

\* max_score of the rubric of the call, in hundredths
call_max_score == SCORING_RUBRIC[call.category].max_score * 100

\* C26: a response made of a SCORE: line with a number, with or without a
\* FEEDBACK: line after it, and no CRITERIA_SCORES: section, is parsed to
\* total_score = the value capped at max_score and empty criteria_scores; a
\* response without any SCORE: line is parsed to total_score 0.
C26_missing_criteria_section ==
    parsed =>
        /\ (/\ Len(call.response) \in {1, 2}
            /\ parsable_scores = {1}
            /\ Len(call.response) = 2 => feedback_lines = {2}) =>
              /\ call.result.total_score
                    = (IF last_score <= call_max_score THEN last_score
                       ELSE call_max_score)
              /\ DOMAIN call.result.criteria_scores = {}
              /\ call.result.max_score = call_max_score
        /\ (\A i \in 1..Len(call.response) :
               ~startswith(strip(call.response[i]), <<"SCORE", ":">>)) =>
              call.result.total_score = 0

\* C26 witness: SCORE: 150 and FEEDBACK: good, without criteria, were parsed
C26_score_and_feedback_only ==
    /\ parsed
    /\ call.response = << <<"SCORE", ":", " ", "150">>,
                          <<"FEEDBACK", ":", " ", "good">> >>
    /\ call.result.total_score = 10000
    /\ call.result.feedback = <<"good">>

\* C27: the parser returns min(total, max_score), where total is the value of
\* the last SCORE: line of the response that holds a number, and 0 when there
\* is none; SCORE: lines whose value is no number change nothing.
C27_last_parsable_score ==
    parsed =>
        call.result.total_score
           = (IF last_score <= call_max_score THEN last_score ELSE call_max_score)

\* C27 witness: of SCORE: 150, SCORE: 85 and SCORE: high, the second is returned
C27_unparsable_after_parsable ==
    /\ parsed
    /\ call.response = << <<"SCORE", ":", " ", "150">>,
                          <<"SCORE", ":", " ", "85">>,
                          <<"SCORE", ":", " ", "high">> >>
    /\ call.result.total_score = 8500

\* a call of _grade_with_rules has returned
ruled == call.op = "grade_with_rules" /\ call.done

\* the content of the call holds a quality word, in any case
has_quality_word ==
    \E i \in 1..Len(call.content.toks) :
        lower_token(call.content.toks[i])
            \in {"quality", "excellent", "professional", "demonstrated"}

\* the criteria configured for the category of the call
call_criteria == SCORING_RUBRIC[call.category].criteria

\* C28: rule-based grading of a content of at least 500 characters that holds
\* a quality word gives every criterion 90% of its max and total_score 90% of
\* max_score.
C28_ninety_percent ==
    (ruled /\ call.content.chars >= 500 /\ has_quality_word) =>
        /\ \A i \in 1..Len(call_criteria) :
              call.result.criteria_scores[call_criteria[i].name]
                 = call_criteria[i].max * 90
        /\ call.result.total_score = SCORING_RUBRIC[call.category].max_score * 90

\* the max values of the criteria of a rubric, by criterion name
criterion_maxes(rubric) ==
    [n \in criteria_names(rubric) |-> criterion_config(rubric, n).max]

\* C29: the criterion max values of every configured rubric sum to its
\* max_score; on the rule-based path every criterion score is between 50% and
\* 100% of its max, total_score is the sum of the criterion scores, and
\* total_score <= max_score.
C29_rule_scores_bounded ==
    /\ \A c \in DOMAIN SCORING_RUBRIC :
          sum_values(criterion_maxes(SCORING_RUBRIC[c]),
                     criteria_names(SCORING_RUBRIC[c]))
             = SCORING_RUBRIC[c].max_score
    /\ ruled =>
          /\ DOMAIN call.result.criteria_scores
                = {call_criteria[i].name : i \in 1..Len(call_criteria)}
          /\ \A i \in 1..Len(call_criteria) :
                /\ call.result.criteria_scores[call_criteria[i].name]
                      >= call_criteria[i].max * 50
                /\ call.result.criteria_scores[call_criteria[i].name]
                      <= call_criteria[i].max * 100
          /\ call.result.total_score
                = sum_values(call.result.criteria_scores,
                             DOMAIN call.result.criteria_scores)
          /\ call.result.total_score <= call.result.max_score
          /\ call.result.max_score = SCORING_RUBRIC[call.category].max_score * 100

\* C29 witness: a transcript of 600 characters with a quality word got 90
C29_long_quality_transcript ==
    /\ ruled
    /\ call.category = "transcript"
    /\ call.content.chars = 600
    /\ has_quality_word
    /\ call.result.total_score = 9000
    /\ call.result.criteria_scores["gpa"] = 5400

\* a call of classify_by_ai has returned
ai_classified == call.op = "classify_by_ai" /\ call.done

\* the answer of the service has no line that starts with category:
malformed_answer ==
    \A i \in 1..Len(call.service.text) :
        ~startswith(call.service.text[i], <<"category", ":">>)

\* C30: without an API key, when the service raises and when its answer has no
\* category: line, classify_by_ai returns the category of the rule-based
\* classify for the same file name and content, with confidence 0.5.
C30_fallback_on_every_failure ==
    (ai_classified /\ (~call.key \/ call.service.raises \/ malformed_answer)) =>
        /\ call.result.category = <<classify(call.file_name, "", call.content)>>
        /\ call.result.confidence = 50

\* C32: no step deletes a Submission, Document or Score row or changes a
\* field of an existing Score row; of an existing Document row only processed
\* may change, and a new Document row carries the category it was classified
\* with.
C32_append_only ==
    [][/\ Len(db'.submissions) >= Len(db.submissions)
       /\ \A i \in 1..Len(db.submissions) :
             /\ db'.submissions[i].id = db.submissions[i].id
             /\ db'.submissions[i].submission_folder_id
                   = db.submissions[i].submission_folder_id
       /\ Len(db'.scores) >= Len(db.scores)
       /\ \A i \in 1..Len(db.scores) : db'.scores[i] = db.scores[i]
       /\ Len(db'.documents) >= Len(db.documents)
       /\ \A i \in 1..Len(db.documents) :
             [db'.documents[i] EXCEPT !.processed = db.documents[i].processed]
                = db.documents[i]
       /\ \A i \in (Len(db.documents) + 1)..Len(db'.documents) :
             /\ document_step
             /\ db'.documents[i].id = taken.document_id
             /\ db'.documents[i].category = taken.category]_vars

\* C32 witness: a second attempt on a container has added rows after the rows
\* of the first attempt, which are still there
C32_rows_of_two_attempts ==
    /\ Len(db.documents) >= 3
    /\ db.documents[1].google_drive_id = db.documents[3].google_drive_id
    /\ db.documents[1].submission_id = db.documents[3].submission_id
    /\ db.documents[3].processed

\* C34: the step that sets processed on a Document row is the call of
\* _process_document that created it, and when its category is not other and
\* its extracted content is not empty a Score row of the same submission names
\* it when the step is over; Score rows are never removed.
C34_processed_implies_scored ==
    [][/\ \A i \in 1..Len(db'.documents) :
             (/\ db'.documents[i].processed
              /\ i <= Len(db.documents) => ~db.documents[i].processed) =>
                /\ document_step
                /\ db'.documents[i].id = taken.document_id
                /\ (/\ db'.documents[i].category # "other"
                    /\ taken.extraction = "text"
                    /\ file_text(taken.google_drive_id).chars > 0) =>
                      \E k \in scores_of(db', taken.document_id) :
                          /\ k > Len(db.scores)
                          /\ db'.scores[k].submission_id
                                = db'.documents[i].submission_id
       /\ \A k \in 1..Len(db.scores) :
             /\ k <= Len(db'.scores)
             /\ db'.scores[k].document_id = db.scores[k].document_id]_vars

\* C34 witness: the delegated service graded a document, and its row is
\* processed and scored
C34_processed_and_scored ==
    /\ api_key
    /\ attempt # <<>>
    /\ attempt[1].graded
    /\ ~attempt[1].service_raised
    /\ attempt[1].fault = "none"
    /\ document_row(db, attempt[1].document_id)[1].processed
    /\ scores_of(db, attempt[1].document_id) # {}

\* C35: every Score row names an existing Document row of the same submission
\* and of the same category, and that category has a rubric.
C35_score_references ==
    \A i \in 1..Len(db.scores) :
        /\ document_row(db, db.scores[i].document_id) # <<>>
        /\ document_row(db, db.scores[i].document_id)[1].submission_id
              = db.scores[i].submission_id
        /\ document_row(db, db.scores[i].document_id)[1].category
              = db.scores[i].category
        /\ db.scores[i].category \in DOMAIN SCORING_RUBRIC

\* C35 witness: the one Score row is the rule-based 90 of the essay of
\* submission 1
C35_essay_score_stored ==
    /\ Len(db.scores) = 1
    /\ db.scores[1].category = "essay"
    /\ db.scores[1].total_score = 9000
    /\ db.scores[1].submission_id = 1
    /\ document_row(db, db.scores[1].document_id)[1].google_drive_id = "d1"

\* the ids a list of ids holds
ids_in(ids) == {ids[i] : i \in 1..Len(ids)}

C37_message_never_cleared ==
    [][\A i \in 1..Len(db.submissions) :
          \/ db'.submissions[i].error_message = db.submissions[i].error_message
          \/ /\ \E k \in 1..Len(status_writes') :
                   /\ status_writes'[k].id = db.submissions[i].id
                   /\ status_writes'[k].to = "error"
             /\ db'.submissions[i].status = "error"
             /\ last' # <<>>
             /\ last'[1].text # ""
             /\ db'.submissions[i].error_message = <<last'[1].text>>]_vars

\* C37 witness: a submission that failed with a message was processed again
\* and is completed, with the message of the failed attempt
C37_completed_with_message ==
    \E i \in 1..Len(db.submissions) :
        /\ db.submissions[i].status = "completed"
        /\ db.submissions[i].error_message = <<"boom">>

\* the ids of rows are positive, increase along the list and are below next
ids_ordered(rows, next) ==
    /\ \A i \in 1..Len(rows) : rows[i].id >= 1 /\ rows[i].id < next
    /\ \A i, k \in 1..Len(rows) : i < k => rows[i].id < rows[k].id

\* C38: in one store the ids of each kind are pairwise distinct and increase
\* in creation order, each counter is above every id of its kind, the counters
\* never go down and a row keeps its id.
C38_ids_increase ==
    [][/\ ids_ordered(db'.submissions, db'.next_submission_id)
       /\ ids_ordered(db'.documents, db'.next_document_id)
       /\ ids_ordered(db'.scores, db'.next_score_id)
       /\ db'.next_submission_id >= db.next_submission_id
       /\ db'.next_document_id >= db.next_document_id
       /\ db'.next_score_id >= db.next_score_id
       /\ \A i \in 1..Len(db.submissions) :
             db'.submissions[i].id = db.submissions[i].id
       /\ \A i \in 1..Len(db.documents) : db'.documents[i].id = db.documents[i].id
       /\ \A i \in 1..Len(db.scores) : db'.scores[i].id = db.scores[i].id]_vars

\* C38 witness: two submissions, three documents and a score have been created
C38_several_rows_created ==
    /\ Len(db.submissions) = 2
    /\ Len(db.documents) = 3
    /\ Len(db.scores) = 1
    /\ db.next_submission_id = 3
    /\ db.next_document_id = 4
    /\ db.next_score_id = 2

\* the positions in the category table, other left out, of the categories with
\* a keyword in the lower-cased file name or content of the call
keyword_categories ==
    {c \in 1..Len(DOCUMENT_CATEGORIES) :
        /\ DOCUMENT_CATEGORIES[c].name # "other"
        /\ \E k \in 1..Len(DOCUMENT_CATEGORIES[c].keywords) :
              \/ \E i \in 1..Len(call.file_name) :
                    lower_token(call.file_name[i]) = DOCUMENT_CATEGORIES[c].keywords[k]
              \/ \E i \in 1..Len(call.content.toks) :
                    lower_token(call.content.toks[i])
                       = DOCUMENT_CATEGORIES[c].keywords[k]}

\* C33: classify returns what a classifier returns that looks at keywords only:
\* the first category, in configuration order, with a keyword in the
\* lower-cased file name or content, and other without one; the extension and
\* the mime type make no difference.
C33_extension_rule_redundant ==
    classified =>
        /\ call.result
              = (IF keyword_categories = {} THEN "other"
                 ELSE DOCUMENT_CATEGORIES[CHOOSE c \in keyword_categories :
                         \A d \in keyword_categories : c <= d].name)
        /\ \A e \in Extensions, m \in {"application/pdf", "", "text/plain"} :
              classify(SubSeq(call.file_name, 1, Len(call.file_name) - 1) \o <<e>>,
                       m, call.content) = call.result

\* C33 witness: a file with an extension of transcript only and a keyword of
\* letter_of_recommendation only has been classified as the latter
C33_extension_of_other_category ==
    /\ classified
    /\ call.file_name = <<"letter", ".xlsx">>
    /\ call.content = EmptyContent
    /\ call.result = "letter_of_recommendation"

\* the rows of the given kind in store d
rows_of_kind(d, kind) ==
    CASE kind = "submission" -> d.submissions
      [] kind = "document" -> d.documents
      [] OTHER -> d.scores

\* C31: with two users of the store at work, no two rows of one kind in the
\* store have the same id, and every create call that returned has its row in
\* the store once no user is inside a create call.
C31_allocation_atomic ==
    /\ \A kind \in Kinds :
          \A i, k \in 1..Len(rows_of_kind(db, kind)) :
              i # k => rows_of_kind(db, kind)[i].id # rows_of_kind(db, kind)[k].id
    /\ (\A w \in Invocations : workers[w].pc \in {"idle", "ready"}) =>
          \A w \in Invocations :
              \A c \in 1..Len(workers[w].created) :
                  Cardinality({i \in 1..Len(rows_of_kind(db, workers[w].created[c].kind)) :
                                  rows_of_kind(db, workers[w].created[c].kind)[i].id
                                     = workers[w].created[c].id})
                     >= Cardinality({v \in Invocations :
                                       \E e \in 1..Len(workers[v].created) :
                                           workers[v].created[e]
                                              = workers[w].created[c]})

====
